---- MODULE Spec2Model ----
(***************************************************************************)
(* The lifecycle of Bot (src/src/model/bot.py): the status state machine   *)
(* driven by the foreground handlers play_pause and stop, and by the       *)
(* worker threads that run main_loop and call status_check_passed.         *)
(*                                                                         *)
(* The foreground handlers are one step each.  A worker thread is          *)
(* interleaved with the other threads at every access it makes to the      *)
(* shared fields status and progress: each worker step below makes at most *)
(* one such access, and its program counter is the line of bot.py it is    *)
(* about to execute.                                                       *)
(*                                                                         *)
(* The OCR utilities search_text_in_rect and get_numbers_in_rect are       *)
(* functions of the text the OCR reader returns; they are applied to that  *)
(* text under SpecText.                                                    *)
(***************************************************************************)
EXTENDS Naturals, Integers, Sequences, FiniteSets, Bags, TLC

\* Bounds of the model.
MaxWorkers == 1      \* worker threads alive at the same time (one more under SpecStale)
MaxTimeout == 2      \* largest timeout argument of status_check_passed
MaxProgress == 1     \* progress takes the levels 0..MaxProgress
MaxUnder == 2        \* the counter of status_check_passed is followed down to -MaxUnder
MaxLen == 2          \* characters of a recognized fragment
MaxFragments == 2    \* fragments the OCR reader returns for a rectangle
MaxWords == 1        \* words of an expected list or a blacklist

\* class BotStatus
RUNNING == "RUNNING"
PAUSED == "PAUSED"
STOPPED == "STOPPED"
CONFIGURING == "CONFIGURING"
BotStatus == {RUNNING, PAUSED, STOPPED, CONFIGURING}

\* The messages the code logs.
MsgOptionsNotSet == "Options not set. Please set options before starting."
MsgStarting == "Starting bot..."
MsgPausing == "Pausing bot..."
MsgResuming == "Resuming bot..."
MsgManualStop == "Manual stop requested. Attempting to stop..."
MsgAlreadyStopped == "Bot is already stopped."
MsgStopped == "Bot has been stopped."
MsgPaused == "Bot is paused.\n"
MsgTimeout == "Timeout reached, stopping..."
MsgTerminating(t) == "Terminating in " \o ToString(t) \o "."

VARIABLES
  status,        \* Bot.status
  progress,      \* Bot.progress
  options_set,   \* Bot.options_set
  thread,        \* Bot.thread: "None", or "Thread" once a Thread was assigned
  workers,       \* the bag of the live threads running main_loop, by local state
  ev,            \* history: what the last step did
  prev,          \* history: the foreground call before the last step, if any
  ocr            \* a call of an OCR utility: the text recognized, the arguments, the result

vars == <<status, progress, options_set, thread, workers, ev, prev, ocr>>

(***************************************************************************)
(* The controller's view of a call: the fields, and the notifications      *)
(* (update_status, update_progress, update_log, clear_log) sent so far.    *)
(***************************************************************************)
Note(call, msg, overwrite) == [call |-> call, msg |-> msg, overwrite |-> overwrite]

Bot ==
  [status |-> status, progress |-> progress, options_set |-> options_set,
   thread |-> thread, notes |-> <<>>, launch |-> 0]

reset_progress(b) ==
  [b EXCEPT !.progress = 0, !.notes = Append(@, Note("update_progress", "", FALSE))]

update_progress(b, p) ==
  [b EXCEPT !.progress = p, !.notes = Append(@, Note("update_progress", "", FALSE))]

\* set_status without the call of controller.update_status.
set_status_silent(b, s) ==
  [b EXCEPT !.status = s]

set_status(b, s) ==
  [b EXCEPT !.status = s, !.notes = Append(@, Note("update_status", "", FALSE))]

log_msg(b, msg, overwrite) ==
  [b EXCEPT !.notes = Append(@, Note("update_log", msg, overwrite))]

clear_log(b) ==
  [b EXCEPT !.notes = Append(@, Note("clear_log", "", FALSE))]

\* Lines 103-105: a new Thread on main_loop is assigned to self.thread and started.
start_thread(b) ==
  [b EXCEPT !.thread = "Thread", !.launch = @ + 1]

\* play_pause with the start branch forgetting reset_progress.
play_pause_keeps_progress(b) ==
  IF b.status = STOPPED
    THEN LET b1 == clear_log(b) IN
         IF ~ b1.options_set
           THEN log_msg(b1, MsgOptionsNotSet, FALSE)
           ELSE start_thread(set_status(log_msg(b1, MsgStarting, FALSE), RUNNING))
  ELSE IF b.status = RUNNING
    THEN set_status(log_msg(b, MsgPausing, FALSE), PAUSED)
  ELSE IF b.status = PAUSED
    THEN set_status(log_msg(b, MsgResuming, FALSE), RUNNING)
  ELSE b

\* play_pause without the return of line 99: it starts with the options unset.
play_pause_no_return(b) ==
  IF b.status = STOPPED
    THEN LET b1 == clear_log(b)
             b2 == IF ~ b1.options_set THEN log_msg(b1, MsgOptionsNotSet, FALSE) ELSE b1
         IN start_thread(
              set_status(reset_progress(log_msg(b2, MsgStarting, FALSE)), RUNNING))
  ELSE IF b.status = RUNNING
    THEN set_status(log_msg(b, MsgPausing, FALSE), PAUSED)
  ELSE IF b.status = PAUSED
    THEN set_status(log_msg(b, MsgResuming, FALSE), RUNNING)
  ELSE b

\* play_pause whose resume branch starts over: it resets the progress.
play_pause_resume_resets(b) ==
  IF b.status = STOPPED
    THEN LET b1 == clear_log(b) IN
         IF ~ b1.options_set
           THEN log_msg(b1, MsgOptionsNotSet, FALSE)
           ELSE start_thread(
                  set_status(reset_progress(log_msg(b1, MsgStarting, FALSE)), RUNNING))
  ELSE IF b.status = RUNNING
    THEN set_status(log_msg(b, MsgPausing, FALSE), PAUSED)
  ELSE IF b.status = PAUSED
    THEN set_status(reset_progress(log_msg(b, MsgResuming, FALSE)), RUNNING)
  ELSE b

\* play_pause taking every status other than RUNNING and PAUSED for STOPPED.
play_pause_else_starts(b) ==
  IF b.status = RUNNING
    THEN set_status(log_msg(b, MsgPausing, FALSE), PAUSED)
  ELSE IF b.status = PAUSED
    THEN set_status(log_msg(b, MsgResuming, FALSE), RUNNING)
  ELSE LET b1 == clear_log(b) IN
       IF ~ b1.options_set
         THEN log_msg(b1, MsgOptionsNotSet, FALSE)
         ELSE start_thread(
                set_status(reset_progress(log_msg(b1, MsgStarting, FALSE)), RUNNING))

play_pause(b) ==
  IF b.status = STOPPED
    THEN LET b1 == clear_log(b) IN
         IF ~ b1.options_set
           THEN log_msg(b1, MsgOptionsNotSet, FALSE)
           ELSE start_thread(
                  set_status(reset_progress(log_msg(b1, MsgStarting, FALSE)), RUNNING))
  ELSE IF b.status = RUNNING
    THEN set_status(log_msg(b, MsgPausing, FALSE), PAUSED)
  ELSE IF b.status = PAUSED
    THEN set_status(log_msg(b, MsgResuming, FALSE), RUNNING)
  ELSE b

\* stop forgetting reset_progress.
stop_keeps_progress(b) ==
  LET b1 == log_msg(b, MsgManualStop, FALSE) IN
  IF b1.status # STOPPED
    THEN set_status(b1, STOPPED)
    ELSE log_msg(b1, MsgAlreadyStopped, FALSE)

stop(b) ==
  LET b1 == log_msg(b, MsgManualStop, FALSE) IN
  IF b1.status # STOPPED
    THEN reset_progress(set_status(b1, STOPPED))
    ELSE log_msg(b1, MsgAlreadyStopped, FALSE)

(***************************************************************************)
(* History records.                                                        *)
(***************************************************************************)
Keys == [pause : BOOLEAN, resume : BOOLEAN, esc : BOOLEAN]
NoKeys == [pause |-> FALSE, resume |-> FALSE, esc |-> FALSE]
NoCall == [t0 |-> 0, sleeps |-> 0, quiet |-> FALSE, timeout |-> 0]

\* What a step did: the operation, the status and progress it found, the
\* notifications it sent, the threads it started, the live workers it found, and
\* for a worker step the keys polled, the branch taken, the result returned and
\* the returning call.
Event(op, b, keys, branch, result, call) ==
  [op |-> op, pre |-> status, prog |-> progress, notes |-> b.notes,
   launched |-> b.launch, alive |-> BagCardinality(workers),
   keys |-> keys, branch |-> branch, result |-> result, call |-> call]

NoPrev == [op |-> "none", pre |-> STOPPED, prog |-> 0, launched |-> 0]

Summary(e) ==
  IF e.op \in {"play_pause", "stop"}
    THEN [op |-> e.op, pre |-> e.pre, prog |-> e.prog, launched |-> e.launched]
    ELSE NoPrev

Commit(b) ==
  /\ status' = b.status
  /\ progress' = b.progress
  /\ thread' = b.thread

\* Python's None, and a value that is not None.
None == [none |-> TRUE]
Some(v) == [none |-> FALSE, value |-> v]

\* No OCR utility has been called.
NoOcr == [op |-> "none", res |-> <<>>, expected |-> <<>>, blacklist |-> None, out |-> None]

(***************************************************************************)
(* The local state of a worker thread: pc is the line of bot.py it is      *)
(* about to execute ("idle": in main_loop, outside status_check_passed),   *)
(* ret the line a poll returns to, timeout the local of                     *)
(* status_check_passed.  History of the call, kept while the call is       *)
(* quiet: quiet says that no poll of the call found a key pressed and      *)
(* every read of status gave PAUSED, t0 is the timeout argument and sleeps *)
(* the one-second sleeps so far.                                           *)
(***************************************************************************)
Idle == [pc |-> "idle", ret |-> "", timeout |-> 0, t0 |-> 0, sleeps |-> 0, quiet |-> FALSE]

Init ==
  /\ status = STOPPED
  /\ progress = 0
  /\ options_set = FALSE
  /\ thread = "None"
  /\ workers = EmptyBag
  /\ ev = Event("init", Bot, NoKeys, "", "", NoCall)
  /\ prev = NoPrev
  /\ ocr = NoOcr

\* The options flow of a concrete bot sets or clears options_set.
save_options ==
  /\ options_set' = ~ options_set
  /\ ev' = Event("save_options", Bot, NoKeys, "", "", NoCall)
  /\ prev' = NoPrev
  /\ UNCHANGED <<status, progress, thread, workers, ocr>>

\* The foreground thread calls play_pause; a start needs room for one more
\* live worker within the bound.
PlayPauseWithin(limit) ==
  /\ (status = STOPPED /\ options_set) => BagCardinality(workers) < limit
  /\ LET b == play_pause(Bot) IN
       /\ Commit(b)
       /\ workers' = IF b.launch > 0 THEN workers (+) SetToBag({Idle}) ELSE workers
       /\ ev' = Event("play_pause", b, NoKeys, "", "", NoCall)
  /\ prev' = Summary(ev)
  /\ UNCHANGED <<options_set, ocr>>

PlayPause == PlayPauseWithin(MaxWorkers)

\* The foreground thread calls stop.
Stop ==
  /\ LET b == stop(Bot) IN
       /\ Commit(b)
       /\ ev' = Event("stop", b, NoKeys, "", "", NoCall)
  /\ prev' = Summary(ev)
  /\ UNCHANGED <<options_set, workers, ocr>>

(***************************************************************************)
(* A worker thread: main_loop, which calls update_progress and             *)
(* status_check_passed and returns when status_check_passed gives False.   *)
(***************************************************************************)
Timeouts == 1..MaxTimeout

Live == BagToSet(workers)

Replace(w, w2) ==
  IF w2.pc = "done"
    THEN workers (-) SetToBag({w})
    ELSE (workers (-) SetToBag({w})) (+) SetToBag({w2})

\* The history of a call goes on while the call is quiet.
Track(w, q) ==
  IF w.quiet /\ q THEN w ELSE [w EXCEPT !.t0 = 0, !.sleeps = 0, !.quiet = FALSE]

CallOf(w) == [t0 |-> w.t0, sleeps |-> w.sleeps, quiet |-> w.quiet, timeout |-> w.timeout]

\* The worker returns from status_check_passed: True leads back into main_loop,
\* False ends main_loop and the thread.
Return(result) ==
  IF result THEN Idle ELSE [Idle EXCEPT !.pc = "done"]

WorkerStep(w, w2, b, e) ==
  /\ Commit(b)
  /\ workers' = Replace(w, w2)
  /\ ev' = e
  /\ prev' = NoPrev
  /\ UNCHANGED <<options_set, ocr>>

\* A step inside status_check_passed that neither polls, writes nor returns.
Inner(b) == Event("status_check_passed", b, NoKeys, "", "", NoCall)

\* main_loop reports its progress.
MainLoopProgress ==
  \E w \in Live, p \in 0..MaxProgress :
    /\ w.pc = "idle"
    /\ LET b == update_progress(Bot, p) IN
       WorkerStep(w, w, b, Event("update_progress", b, NoKeys, "", "", NoCall))

(***************************************************************************)
(* __check_interrupt, up to its first write.  The three keys are read,     *)
(* then status is read on the branch taken; pc is the line of the pending  *)
(* write ("l131", "l135", "l119"), or "ret" when the poll is over.         *)
(***************************************************************************)
check_interrupt(b, keys) ==
  IF keys.pause
    THEN IF b.status = RUNNING
           THEN [bot |-> log_msg(b, MsgPausing, FALSE), pc |-> "l131", branch |-> "pause"]
           ELSE [bot |-> b, pc |-> "ret", branch |-> "pause"]
  ELSE IF keys.resume
    THEN IF b.status = PAUSED
           THEN [bot |-> log_msg(b, MsgResuming, FALSE), pc |-> "l135", branch |-> "resume"]
           ELSE [bot |-> b, pc |-> "ret", branch |-> "resume"]
  ELSE IF keys.esc
    THEN LET b1 == log_msg(b, MsgManualStop, FALSE) IN
         IF b1.status # STOPPED
           THEN [bot |-> b1, pc |-> "l119", branch |-> "stop"]
           ELSE [bot |-> log_msg(b1, MsgAlreadyStopped, FALSE), pc |-> "ret",
                 branch |-> "stop"]
  ELSE [bot |-> b, pc |-> "ret", branch |-> "none"]

AfterPoll(c, w, ret) ==
  IF c.pc = "ret"
    THEN [w EXCEPT !.pc = ret, !.ret = ""]
    ELSE [w EXCEPT !.pc = c.pc, !.ret = ret]

Poll(w, w1, k, ret) ==
  LET c == check_interrupt(Bot, k) IN
  WorkerStep(w, AfterPoll(c, Track(w1, k = NoKeys), ret), c.bot,
             Event("check_interrupt", c.bot, k, c.branch, "", NoCall))

\* Line 153: status_check_passed(timeout) is called and polls the keys.
StatusCheck_l153 ==
  \E w \in Live, t \in Timeouts, k \in Keys :
    /\ w.pc = "idle"
    /\ Poll(w, [Idle EXCEPT !.timeout = t, !.t0 = t, !.quiet = TRUE], k, "l155")

\* Line 162: the poll of the pause loop.
StatusCheck_l162 ==
  \E w \in Live, k \in Keys :
    /\ w.pc = "l162"
    /\ Poll(w, w, k, "l163")

\* Line 131: the pending set_status(PAUSED) of a poll.
Interrupt_l131 ==
  \E w \in Live :
    /\ w.pc = "l131"
    /\ LET b == set_status(Bot, PAUSED) IN
       WorkerStep(w, [w EXCEPT !.pc = w.ret, !.ret = ""], b,
                  Event("l131", b, NoKeys, "pause", "", NoCall))

\* Line 135: the pending set_status(RUNNING) of a poll.
Interrupt_l135 ==
  \E w \in Live :
    /\ w.pc = "l135"
    /\ LET b == set_status(Bot, RUNNING) IN
       WorkerStep(w, [w EXCEPT !.pc = w.ret, !.ret = ""], b,
                  Event("l135", b, NoKeys, "resume", "", NoCall))

\* Line 119: stop(), called by a poll, sets STOPPED.
Interrupt_l119 ==
  \E w \in Live :
    /\ w.pc = "l119"
    /\ LET b == set_status(Bot, STOPPED) IN
       WorkerStep(w, [w EXCEPT !.pc = "l120"], b,
                  Event("l119", b, NoKeys, "stop", "", NoCall))

\* Line 120: stop(), called by a poll, resets the progress.
Interrupt_l120 ==
  \E w \in Live :
    /\ w.pc = "l120"
    /\ LET b == reset_progress(Bot) IN
       WorkerStep(w, [w EXCEPT !.pc = w.ret, !.ret = ""], b,
                  Event("l120", b, NoKeys, "stop", "", NoCall))

\* Lines 155-157.
StatusCheck_l155 ==
  \E w \in Live :
    /\ w.pc = "l155"
    /\ IF status = STOPPED
         THEN LET b == log_msg(Bot, MsgStopped, FALSE) IN
              WorkerStep(w, Return(FALSE), b,
                         Event("return", b, NoKeys, "l155", "False", CallOf(Track(w, FALSE))))
         ELSE WorkerStep(w, [Track(w, status = PAUSED) EXCEPT !.pc = "l159"], Bot,
                         Inner(Bot))

\* Lines 159-160, and line 175 when the status read is not PAUSED.
StatusCheck_l159 ==
  \E w \in Live :
    /\ w.pc = "l159"
    /\ IF status = PAUSED
         THEN LET b == log_msg(Bot, MsgPaused, FALSE) IN
              WorkerStep(w, [w EXCEPT !.pc = "l161"], b, Inner(b))
         ELSE WorkerStep(w, Return(TRUE), Bot,
                         Event("return", Bot, NoKeys, "l159", "True", CallOf(Track(w, FALSE))))

\* Line 161: the loop condition, and line 175 when it fails.
StatusCheck_l161 ==
  \E w \in Live :
    /\ w.pc = "l161"
    /\ IF status = PAUSED
         THEN WorkerStep(w, [w EXCEPT !.pc = "l162"], Bot, Inner(Bot))
         ELSE WorkerStep(w, Return(TRUE), Bot,
                         Event("return", Bot, NoKeys, "l161", "True", CallOf(Track(w, FALSE))))

\* Lines 163-166: the one-second sleep, then the check for STOPPED.
StatusCheck_l163 ==
  \E w \in Live :
    /\ w.pc = "l163"
    /\ LET w1 == Track([w EXCEPT !.sleeps = @ + 1], status = PAUSED) IN
       IF status = STOPPED
         THEN LET b == log_msg(Bot, MsgStopped, FALSE) IN
              WorkerStep(w, Return(FALSE), b,
                         Event("return", b, NoKeys, "l164", "False", CallOf(w1)))
         ELSE WorkerStep(w, [w1 EXCEPT !.pc = "l167"], Bot, Inner(Bot))

\* Line 167: timeout -= 1.
Decrement(t) == t - 1

\* The test of line 168 as "timeout <= 0".
Expired_nonpositive(t) == t <= 0

\* The test of line 168 firing one second early.
Expired_early(t) == t <= 1

\* Line 168: the pause has lasted the whole timeout.
Expired(t) == t = 0

\* Lines 167-174: the countdown, the forced stop at 0, else the countdown message.
\* The counter is followed down to -MaxUnder.
StatusCheck_l167 ==
  \E w \in Live :
    /\ w.pc = "l167"
    /\ Decrement(w.timeout) >= 0 - MaxUnder
    /\ LET t == Decrement(w.timeout) IN
       IF Expired(t)
         THEN LET b == set_status(log_msg(Bot, MsgTimeout, FALSE), STOPPED) IN
              WorkerStep(w, Return(FALSE), b,
                         Event("return", b, NoKeys, "l168", "False", CallOf(w)))
         ELSE LET b == IF status = PAUSED
                         THEN log_msg(Bot, MsgTerminating(t), TRUE)
                         ELSE Bot
              IN WorkerStep(w, [Track(w, status = PAUSED) EXCEPT !.pc = "l161",
                                                                 !.timeout = t],
                            b, Inner(b))

WorkerNext ==
  \/ MainLoopProgress
  \/ StatusCheck_l153
  \/ StatusCheck_l155
  \/ StatusCheck_l159
  \/ StatusCheck_l161
  \/ StatusCheck_l162
  \/ StatusCheck_l163
  \/ StatusCheck_l167
  \/ Interrupt_l131
  \/ Interrupt_l135
  \/ Interrupt_l119
  \/ Interrupt_l120

Next ==
  \/ save_options
  \/ PlayPause
  \/ Stop
  \/ WorkerNext

Spec == Init /\ [][Next]_vars

(***************************************************************************)
(* The same program with room for a stale worker: play_pause may start a   *)
(* new thread while a worker of an earlier start is still alive.           *)
(***************************************************************************)
PlayPauseStale == PlayPauseWithin(MaxWorkers + 1)

NextStale ==
  \/ save_options
  \/ PlayPauseStale
  \/ Stop
  \/ WorkerNext

SpecStale == Init /\ [][NextStale]_vars

(***************************************************************************)
(* The scheduling of the threads.  The operating system runs every thread  *)
(* that can run: a worker inside status_check_passed goes on to its next   *)
(* line, and main_loop goes on calling status_check_passed.  Nothing makes *)
(* the user issue a command or press a key.                                *)
(***************************************************************************)
Fairness ==
  /\ SF_vars(StatusCheck_l153)
  /\ WF_vars(StatusCheck_l155)
  /\ WF_vars(StatusCheck_l159)
  /\ WF_vars(StatusCheck_l161)
  /\ WF_vars(StatusCheck_l162)
  /\ WF_vars(StatusCheck_l163)
  /\ WF_vars(StatusCheck_l167)
  /\ WF_vars(Interrupt_l131)
  /\ WF_vars(Interrupt_l135)
  /\ WF_vars(Interrupt_l119)
  /\ WF_vars(Interrupt_l120)

SpecFair == SpecStale /\ Fairness

(***************************************************************************)
(* The program with a main_loop that passes status_check_passed a timeout  *)
(* of 0 or less.                                                           *)
(***************************************************************************)
NonPositive == (1 - MaxUnder)..0

StatusCheck_l153_under ==
  \E w \in Live, t \in NonPositive, k \in Keys :
    /\ w.pc = "idle"
    /\ Poll(w, [Idle EXCEPT !.timeout = t, !.t0 = t, !.quiet = TRUE], k, "l155")

NextUnder ==
  \/ save_options
  \/ PlayPause
  \/ Stop
  \/ MainLoopProgress
  \/ StatusCheck_l153_under
  \/ StatusCheck_l155
  \/ StatusCheck_l159
  \/ StatusCheck_l161
  \/ StatusCheck_l162
  \/ StatusCheck_l163
  \/ StatusCheck_l167
  \/ Interrupt_l131
  \/ Interrupt_l135
  \/ Interrupt_l119
  \/ Interrupt_l120

SpecUnder == Init /\ [][NextUnder]_vars

(***************************************************************************)
(* The program with the options flow of the controller, which is not part  *)
(* of bot.py: it takes a stopped bot into CONFIGURING while the options    *)
(* are edited, and back to STOPPED.                                        *)
(***************************************************************************)
Configure ==
  /\ status = STOPPED
  /\ LET b == set_status(Bot, CONFIGURING) IN
       /\ Commit(b)
       /\ ev' = Event("configure", b, NoKeys, "", "", NoCall)
  /\ prev' = NoPrev
  /\ UNCHANGED <<options_set, workers, ocr>>

Configured ==
  /\ status = CONFIGURING
  /\ LET b == set_status(Bot, STOPPED) IN
       /\ Commit(b)
       /\ ev' = Event("configured", b, NoKeys, "", "", NoCall)
  /\ prev' = NoPrev
  /\ UNCHANGED <<options_set, workers, ocr>>

NextConfig ==
  \/ save_options
  \/ PlayPause
  \/ Stop
  \/ WorkerNext
  \/ Configure
  \/ Configured

SpecConfig == Init /\ [][NextConfig]_vars

(***************************************************************************)
(* The OCR utilities.  A text is a sequence of characters; the input is    *)
(* what reader.readtext returns for the rectangle, a sequence of           *)
(* fragments, with the word lists the caller passes.                       *)
(***************************************************************************)
Chars == {"a", "B", "7", "0"}
Digits == {"0", "1", "2", "3", "4", "5", "6", "7", "8", "9"}

SeqsUpTo(S, n) == UNION {[1..k -> S] : k \in 0..n}

Fragments == SeqsUpTo(Chars, MaxLen)
Readings == SeqsUpTo(Fragments, MaxFragments)
Words == {<<"a">>, <<"B">>}
WordLists == SeqsUpTo(Words, MaxWords)

\* str.lower(), character by character.
lower_char(c) ==
  CASE c = "A" -> "a"
    [] c = "B" -> "b"
    [] OTHER -> c

lower(str) == [i \in 1..Len(str) |-> lower_char(str[i])]

\* word in str
in_str(word, str) ==
  \E i \in 0..(Len(str) - Len(word)) : SubSeq(str, i + 1, i + Len(word)) = word

\* __any_in_str: whether a word of the list, lowered, is found in the string.
any_in_str(words, str) ==
  \E k \in 1..Len(words) : in_str(lower(words[k]), str)

\* The loop of search_text_in_rect from fragment i on.
RECURSIVE search_from(_, _, _, _, _)
search_from(res, i, word_found, expected, blacklist) ==
  IF i > Len(res)
    THEN IF word_found THEN Some(TRUE) ELSE None
  ELSE IF res[i] = <<>>
    THEN None
  ELSE LET text == lower(res[i]) IN
       IF ~ blacklist.none /\ any_in_str(blacklist.value, text)
         THEN Some(FALSE)
         ELSE search_from(res, i + 1,
                          IF ~ word_found THEN any_in_str(expected, text) ELSE word_found,
                          expected, blacklist)

search_text_in_rect(res, expected, blacklist) ==
  search_from(res, 1, FALSE, expected, blacklist)

\* get_text_in_rect: every fragment followed by a space.
RECURSIVE get_text_in_rect(_)
get_text_in_rect(res) ==
  IF res = <<>> THEN <<>> ELSE Head(res) \o <<" ">> \o get_text_in_rect(Tail(res))

\* re.findall('\d+', text) from position i on, run being the digits matched so far.
RECURSIVE findall(_, _, _)
findall(text, i, run) ==
  LET matched == IF run = <<>> THEN <<>> ELSE <<run>> IN
  IF i > Len(text) THEN matched
  ELSE IF text[i] \in Digits THEN findall(text, i + 1, Append(run, text[i]))
  ELSE matched \o findall(text, i + 1, <<>>)

digit(c) ==
  CASE c = "0" -> 0 [] c = "1" -> 1 [] c = "2" -> 2 [] c = "3" -> 3 [] c = "4" -> 4
    [] c = "5" -> 5 [] c = "6" -> 6 [] c = "7" -> 7 [] c = "8" -> 8 [] c = "9" -> 9

\* int(numeric_string)
RECURSIVE int(_)
int(str) ==
  IF str = <<>> THEN 0
  ELSE int(SubSeq(str, 1, Len(str) - 1)) * 10 + digit(str[Len(str)])

get_numbers_in_rect(res) ==
  LET string_nums == findall(get_text_in_rect(res), 1, <<>>)
      numbers == [k \in 1..Len(string_nums) |-> int(string_nums[k])]
  IN IF numbers = <<>> THEN None ELSE Some(numbers)

Blacklists == {None} \cup {Some(l) : l \in WordLists}

InitText ==
  /\ status = STOPPED
  /\ progress = 0
  /\ options_set = FALSE
  /\ thread = "None"
  /\ workers = EmptyBag
  /\ ev = Event("init", Bot, NoKeys, "", "", NoCall)
  /\ prev = NoPrev
  /\ ocr \in [op : {"input"}, res : Readings, expected : WordLists,
              blacklist : Blacklists, out : {None}]

SearchText ==
  /\ ocr.op = "input"
  /\ ocr' = [ocr EXCEPT !.op = "search_text_in_rect",
                        !.out = search_text_in_rect(ocr.res, ocr.expected, ocr.blacklist)]
  /\ UNCHANGED <<status, progress, options_set, thread, workers, ev, prev>>

GetNumbers ==
  /\ ocr.op = "input"
  /\ ocr' = [ocr EXCEPT !.op = "get_numbers_in_rect",
                        !.out = get_numbers_in_rect(ocr.res)]
  /\ UNCHANGED <<status, progress, options_set, thread, workers, ev, prev>>

NextText ==
  \/ SearchText
  \/ GetNumbers

SpecText == InitText /\ [][NextText]_vars

(***************************************************************************)
(* The claims.                                                             *)
(***************************************************************************)
Sent(call) == SelectSeq(ev.notes, LAMBDA n : n.call = call)

Logged == [i \in 1..Len(Sent("update_log")) |-> Sent("update_log")[i].msg]

StartCall == ev.op = "play_pause" /\ ev.pre = STOPPED /\ options_set

\* C1: play_pause called with status STOPPED and options_set true leaves status
\* RUNNING and progress 0, and has started exactly one new worker on main_loop.
C1_StartLaunchesOneWorker ==
  StartCall =>
    /\ status = RUNNING
    /\ progress = 0
    /\ ev.launched = 1
    /\ thread = "Thread"
    /\ BagIn(Idle, workers)
    /\ BagCardinality(workers) = ev.alive + 1

\* A start that found a progress other than 0.
C1_Witness == StartCall /\ ev.prog # 0 /\ status = RUNNING

RefusedCall == ev.op = "play_pause" /\ ev.pre = STOPPED /\ ~ options_set

\* C2: play_pause called with status STOPPED and options_set false leaves status
\* STOPPED and progress as it was, starts no worker, and logs at least one message.
C2_StartRefusedWithoutOptions ==
  RefusedCall =>
    /\ status = STOPPED
    /\ progress = ev.prog
    /\ ev.launched = 0
    /\ BagCardinality(workers) = ev.alive
    /\ Len(Sent("update_log")) >= 1

\* A refused start that found a progress other than 0.
C2_Witness == RefusedCall /\ ev.prog # 0 /\ MsgOptionsNotSet \in {Logged[i] : i \in DOMAIN Logged}

\* C3: at most one worker execution of main_loop is alive at any time.
C3_AtMostOneWorker == BagCardinality(workers) <= 1

\* C4: the only step that takes status from STOPPED to another value is the
\* start branch of play_pause.
C4_LeavesStoppedOnlyByStart ==
  (ev.pre = STOPPED /\ status # STOPPED) => (ev.op = "play_pause" /\ ev.launched = 1)

LoopExit == ev.op = "return" /\ ev.branch \in {"l161", "l164", "l168"}

\* C5: when the pause loop of status_check_passed ends and the status it finds
\* is RUNNING (a resume came before the counter reached 0, be it in the last
\* second), the call returns True and leaves status RUNNING.  (The other half,
\* False for STOPPED, is what C9 states.)
C5_ResumeEndsLoopWithTrue ==
  (LoopExit /\ ev.pre = RUNNING) => (ev.result = "True" /\ status = RUNNING)

\* C6: a call of status_check_passed(timeout), timeout >= 1, that finds status
\* PAUSED at each of its reads and no key pressed at each of its polls returns
\* only by the timeout, after exactly timeout one-second sleeps, with status
\* STOPPED and the result False; until then each sleep takes one off the counter,
\* so the sleeps never exceed timeout.
C6_QuietPauseTimesOut ==
  /\ (ev.op = "return" /\ ev.call.quiet) =>
       /\ ev.branch = "l168"
       /\ ev.result = "False"
       /\ status = STOPPED
       /\ ev.call.t0 >= 1
       /\ ev.call.sleeps = ev.call.t0
  /\ \A w \in Live :
       (w.quiet /\ w.pc \in {"l161", "l162", "l163", "l167"}) =>
         /\ w.timeout >= 1
         /\ w.sleeps + w.timeout = w.t0 + (IF w.pc = "l167" THEN 1 ELSE 0)

\* A quiet call with the largest timeout has timed out.
C6_Witness ==
  /\ ev.op = "return" /\ ev.call.quiet /\ ev.call.t0 = MaxTimeout
  /\ ev.call.sleeps = MaxTimeout /\ status = STOPPED

SecondStop == ev.op = "stop" /\ prev.op = "stop"

\* C7, as stated: after a first stop() status is STOPPED and progress 0, and a
\* second stop() right after changes neither, sends no status or progress
\* notification, and logs the "already stopped" message only.
C7_StopTwiceAsStated ==
  SecondStop =>
    /\ ev.pre = STOPPED /\ ev.prog = 0
    /\ status = STOPPED /\ progress = 0
    /\ Sent("update_status") = <<>> /\ Sent("update_progress") = <<>>
    /\ Logged = <<MsgAlreadyStopped>>

\* C7, amended: after a first stop() status is STOPPED, and progress is 0 when
\* that call found a status other than STOPPED; a second stop() right after
\* changes neither status nor progress, sends no status or progress notification,
\* and logs the "manual stop requested" message, then the "already stopped" one.
C7_StopTwice ==
  SecondStop =>
    /\ ev.pre = STOPPED
    /\ prev.pre # STOPPED => ev.prog = 0
    /\ prev.pre = STOPPED => ev.prog = prev.prog
    /\ status = STOPPED /\ progress = ev.prog
    /\ Sent("update_status") = <<>> /\ Sent("update_progress") = <<>>
    /\ Logged = <<MsgManualStop, MsgAlreadyStopped>>

\* Two stops in a row, the first of which found the bot running with progress.
C7_Witness == SecondStop /\ prev.pre = RUNNING /\ prev.prog # 0 /\ progress = 0

TogglePair == ev.op = "play_pause" /\ prev.op = "play_pause" /\ prev.pre = RUNNING

\* C8: two play_pause calls in a row, the first with status RUNNING: the first
\* leaves PAUSED, the second RUNNING, progress is as before the first, and no
\* worker is started.
C8_PauseResumeRoundTrip ==
  TogglePair =>
    /\ ev.pre = PAUSED
    /\ status = RUNNING
    /\ ev.prog = prev.prog /\ progress = prev.prog
    /\ prev.launched = 0 /\ ev.launched = 0
    /\ BagCardinality(workers) = ev.alive

\* A pause and a resume in a row with a progress other than 0.
C8_Witness == TogglePair /\ progress # 0 /\ status = RUNNING

\* C9: status_check_passed does not return True when the status it read last
\* is STOPPED.
C9_NoTrueOnStopped ==
  (ev.op = "return" /\ ev.pre = STOPPED) => ev.result = "False"

\* C10: a poll that finds the stop key pressed calls stop(), which leaves status
\* STOPPED (it finds STOPPED, or goes on to set it), whatever the status and the
\* other two keys.
C10_StopKeyStops ==
  (ev.op = "check_interrupt" /\ ev.keys.esc) =>
    /\ ev.branch = "stop"
    /\ status = STOPPED \/ \E w \in Live : w.pc = "l119"

\* C11: once stop() has set STOPPED while a worker is running, a call of
\* status_check_passed returns False to a worker (which then leaves main_loop),
\* whatever the foreground thread does afterwards.
C11_StoppedWorkerTerminates ==
  (ev.op = "stop" /\ ev.pre # STOPPED /\ ev.alive > 0)
    ~> (ev.op = "return" /\ ev.result = "False")

\* C12: status is written only by the foreground handlers play_pause and stop:
\* no step of a worker thread changes status or calls set_status.
C12_OnlyForegroundWritesStatus ==
  (status # ev.pre \/ Sent("update_status") # <<>>) => ev.op \in {"play_pause", "stop"}

\* The steps that complete a stop: stop() on the foreground thread finding a
\* status other than STOPPED, the end of stop() called by a poll, and the forced
\* stop of the pause timeout.
StopCompleted ==
  \/ ev.op = "stop" /\ ev.pre # STOPPED
  \/ ev.op = "l120"
  \/ ev.op = "return" /\ ev.branch = "l168"

\* C13: every stop (foreground stop(), stop() through the stop key, forced stop
\* on pause timeout) leaves progress 0 and notifies the controller of the
\* progress change.
C13_StopResetsProgress ==
  StopCompleted => (progress = 0 /\ Sent("update_progress") # <<>>)

\* C16: a step that changes status sends exactly one update_status notification.
C16_StatusChangeNotifiesOnce ==
  /\ status # ev.pre => Len(Sent("update_status")) = 1
  /\ Len(Sent("update_status")) <= 1

\* The forced stop of the pause timeout changes status.
C16_Witness == ev.op = "return" /\ ev.branch = "l168" /\ status # ev.pre

\* C17: a poll with the resume key pressed that finds PAUSED goes on to set
\* RUNNING, whatever the pause and stop keys; a poll with the pause key pressed
\* that finds RUNNING goes on to set PAUSED.
C17_KeysToggle ==
  ev.op = "check_interrupt" =>
    /\ (ev.keys.resume /\ ev.pre = PAUSED) => \E w \in Live : w.pc = "l135"
    /\ (ev.keys.pause /\ ev.pre = RUNNING) => \E w \in Live : w.pc = "l131"

\* C18: play_pause called with status CONFIGURING changes nothing: status,
\* progress, self.thread and the live workers stay as they are, no thread is
\* started and no notification is sent.
C18_ConfiguringPlayPauseNoOp ==
  [][(status = CONFIGURING /\ ev'.op = "play_pause") =>
       /\ UNCHANGED <<status, progress, options_set, thread, workers>>
       /\ ev'.notes = <<>>
       /\ ev'.launched = 0]_vars

\* play_pause was called with status CONFIGURING, a progress other than 0, the
\* options set and a worker of an earlier start alive.
C18_Witness ==
  /\ ev.op = "play_pause"
  /\ ev.pre = CONFIGURING
  /\ ev.prog # 0
  /\ options_set
  /\ ev.alive > 0

\* C19: status_check_passed does not return True when the status it read last
\* is CONFIGURING.
C19_NoTrueOnConfiguring ==
  (ev.op = "return" /\ ev.pre = CONFIGURING) => ev.result # "True"

\* A fragment contains a word of the list, as __any_in_str compares them.
Contains(fragment, words) == any_in_str(words, lower(fragment))

BlacklistHit ==
  /\ ~ ocr.blacklist.none
  /\ \E i \in 1..Len(ocr.res) : Contains(ocr.res[i], ocr.blacklist.value)

ExpectedHit == \E i \in 1..Len(ocr.res) : Contains(ocr.res[i], ocr.expected)

\* C14: search_text_in_rect gives False when some fragment of the sequence
\* contains a blacklisted word, whatever the other fragments (empty ones
\* included); else True when some fragment contains an expected word; else None.
C14_TriState ==
  ocr.op = "search_text_in_rect" =>
    ocr.out = IF BlacklistHit THEN Some(FALSE)
              ELSE IF ExpectedHit THEN Some(TRUE)
              ELSE None

\* The recognized text, the positions where a maximal run of digits starts, the
\* end of the run that starts at i, and the k-th run.
Text == get_text_in_rect(ocr.res)

RunStarts ==
  {i \in 1..Len(Text) : Text[i] \in Digits /\ (i = 1 \/ Text[i - 1] \notin Digits)}

RunEnd(i) ==
  CHOOSE j \in i..Len(Text) :
    /\ \A k \in i..j : Text[k] \in Digits
    /\ j = Len(Text) \/ Text[j + 1] \notin Digits

Run(k) ==
  LET i == CHOOSE s \in RunStarts : Cardinality({t \in RunStarts : t <= s}) = k
  IN SubSeq(Text, i, RunEnd(i))

\* C15: get_numbers_in_rect gives None when the text has no digit; else the
\* list with one integer per maximal run of digits, in order of appearance, in
\* which no value occurs twice.
C15_DistinctNumbers ==
  ocr.op = "get_numbers_in_rect" =>
    IF RunStarts = {}
      THEN ocr.out = None
      ELSE /\ ~ ocr.out.none
           /\ Len(ocr.out.value) = Cardinality(RunStarts)
           /\ \A k \in 1..Len(ocr.out.value) : ocr.out.value[k] = int(Run(k))
           /\ \A j, k \in 1..Len(ocr.out.value) :
                j # k => ocr.out.value[j] # ocr.out.value[k]

\* A return out of the pause loop of a call whose counter is 0 or less: the
\* timeout argument was 0 or less.
UnderLoopExit ==
  /\ ev.op = "return"
  /\ ev.branch \in {"l161", "l164", "l168"}
  /\ ev.call.timeout <= 0

\* C20: a call of status_check_passed with a timeout of 0 or less never forces
\* STOPPED, and it leaves the pause loop only on reading a status other than
\* PAUSED; while every read gives PAUSED and no key is pressed the counter goes
\* down below 0, one per sleep, and the call stays in the loop.
C20_NonPositiveTimeoutWaits ==
  /\ UnderLoopExit =>
       /\ ev.branch # "l168"
       /\ ev.pre # PAUSED
       /\ Sent("update_status") = <<>>
  /\ \A w \in Live :
       (w.quiet /\ w.t0 <= 0 /\ w.pc \in {"l161", "l162", "l163", "l167"}) =>
         /\ w.timeout <= 0
         /\ w.sleeps + w.timeout = w.t0 + (IF w.pc = "l167" THEN 1 ELSE 0)

\* A call with timeout 0 is still waiting after MaxUnder sleeps, the counter at
\* -MaxUnder and status PAUSED.
C20_Witness ==
  /\ status = PAUSED
  /\ \E w \in Live :
       /\ w.quiet /\ w.t0 = 0 /\ w.pc = "l161"
       /\ w.sleeps = MaxUnder /\ w.timeout = 0 - MaxUnder
====
